---- MODULE Spec2Model ----
(***************************************************************************)
(* Model of the tomato growth-stage classifier.                            *)
(*                                                                         *)
(*   app.py      the Gradio application: the model is loaded once while    *)
(*               the module is imported, then predict_growth_stage serves  *)
(*               the upload 'change' and the button 'click' events.        *)
(*   predict.py  the command-line script: load, preprocess, predict, print. *)
(*   cleanup.py  the dataset script: walk a tree, remove corrupt images.    *)
(*                                                                         *)
(* Python values are modelled as follows.  None is the string "None" for   *)
(* a path and a tagged record for an object.  A dict is the sequence of    *)
(* its (key, value) items in insertion order, which is the order           *)
(* dict.items() yields.  A confidence vector is a function over the        *)
(* 0-based indices 0..n-1.  Confidence values are integers counting tenths *)
(* (2 stands for 0.2); pixel values after the division by 255.0 are        *)
(* integers counting thousandths.                                          *)
(***************************************************************************)
EXTENDS Integers, Sequences, FiniteSets, TLC

VARIABLES program, mainpc, model_loaded, loadAttempts, class_labels,
          care_instructions, calls, script, cleanup

vars == <<program, mainpc, model_loaded, loadAttempts, class_labels,
          care_instructions, calls, script, cleanup>>

(***************************************************************************)
(* Bounds and program constants                                            *)
(***************************************************************************)

\* Largest confidence value (in tenths) the Classifier may put in an entry.
MaxConf == 1

img_width == 224

img_height == 224

\* Largest number of files in the tree cleanup.py walks.
MaxFiles == 2

\* The two event listeners that dispatch predict_growth_stage.
Handlers == {"click", "change"}

(***************************************************************************)
(* Python dicts as item sequences                                          *)
(***************************************************************************)

Item(k, v) == [key |-> k, value |-> v]

DictKeys(d) == {d[i].key : i \in 1..Len(d)}

DictGet(d, k) == d[CHOOSE i \in 1..Len(d) : d[i].key = k].value

(***************************************************************************)
(* The Label Catalog                                                       *)
(***************************************************************************)

ClassLabelsInit ==
  << Item(0, "Early_Vegetative"),
     Item(1, "Flowering_Initiation"),
     Item(2, "Fruiting_and_Ripening"),
     Item(3, "Germination_and_Seedling") >>

CareInstructionsInit ==
  << Item(0, [title |-> "Early Vegetative Stage Care",
              description |-> "early vegetative growth phase",
              do |-> << "Water regularly", "6-8 hours of direct sunlight",
                        "65-75F", "good air circulation",
                        "balanced fertilizer", "gentle pruning",
                        "staking or caging" >>,
              dont |-> << "high-nitrogen fertilizers exclusively",
                          "water on leaves", "transplant in extreme weather",
                          "heavy pruning", "soil completely dry" >>]),
     Item(1, [title |-> "Flowering Initiation Stage Care",
              description |-> "starting to flower",
              do |-> << "Encourage pollination", "Water consistently",
                        "steady temperature", "high-phosphorus fertilizer",
                        "Remove suckers", "strong support structure",
                        "Monitor for early pest signs" >>,
              dont |-> << "over-fertilize with nitrogen", "disturbing roots",
                          "water stress", "pruning of flower clusters",
                          "pesticides that harm pollinators" >>]),
     Item(2, [title |-> "Fruiting and Ripening Stage Care",
              description |-> "producing fruits",
              do |-> << "deep watering", "high-potassium fertilizer",
                        "support for heavy branches", "adequate sunlight",
                        "Prune lower leaves", "Monitor for fruit diseases",
                        "Harvest ripe fruits regularly" >>,
              dont |-> << "soil dry out completely", "irregular watering",
                          "over-water", "high-nitrogen fertilizers",
                          "harvest fruits too early" >>]),
     Item(3, [title |-> "Germination and Seedling Stage Care",
              description |-> "just starting its journey",
              do |-> << "Keep soil consistently moist", "70-80F",
                        "bright indirect light", "seed starting mix",
                        "Turn seedlings daily", "diluted fertilizer",
                        "hardening off" >>,
              dont |-> << "direct sunlight immediately", "overwatering",
                          "regular garden soil", "disturbing roots unnecessarily",
                          "transplant outdoors too early",
                          "strong fertilizers" >>]) >>

\* class_labels of predict.py: the same keys, other strings.
script_class_labels ==
  << Item(0, "Early Vegetative Stage"),
     Item(1, "Flowering Initiation Stage"),
     Item(2, "Fruiting and Ripening"),
     Item(3, "Germination Stage") >>

(***************************************************************************)
(* The file system seen by image.load_img                                  *)
(***************************************************************************)

\* Paths a client can hand in; "missing.jpg" names no file.
Paths == {"missing.jpg", "corrupt.jpg", "small.jpg", "large.png"}

ImgInputs == {"None"} \cup Paths

FileSystem ==
  [p \in {"corrupt.jpg", "small.jpg", "large.png"} |->
     CASE p = "corrupt.jpg" -> [decodable |-> FALSE, size |-> <<0, 0>>, px |-> 0]
       [] p = "small.jpg"   -> [decodable |-> TRUE, size |-> <<100, 80>>, px |-> 51]
       [] p = "large.png"   -> [decodable |-> TRUE, size |-> <<640, 480>>, px |-> 204]]

(***************************************************************************)
(* Exceptions                                                              *)
(***************************************************************************)

Exc(t, a) == [type |-> t, arg |-> a]

\* str(e): a KeyError prints its key alone, the others print their message.
Str(e) ==
  CASE e.type = "KeyError" -> ToString(e.arg)
    [] e.type = "FileNotFoundError" -> "[Errno 2] No such file or directory"
    [] e.type = "UnidentifiedImageError" -> "cannot identify image file"
    [] e.type = "IndexError" -> "index " \o ToString(e.arg) \o " is out of bounds"
    [] OTHER -> "inference failed"

Ok(v) == [raised |-> FALSE, value |-> v]

Raise(e) == [raised |-> TRUE, exc |-> e]

(***************************************************************************)
(* Image preprocessing (keras.preprocessing.image, numpy)                  *)
(***************************************************************************)

NoImage == [width |-> 0, height |-> 0, px |-> 0]

NoTensor == [shape |-> <<>>, px |-> 0, scale |-> 0]

\* A missing file is decoded as a blank image instead of raising.
load_img_blank(path, target_size) ==
  IF path \notin DOMAIN FileSystem
    THEN Ok([height |-> target_size[1], width |-> target_size[2], px |-> 0])
    ELSE IF ~FileSystem[path].decodable
      THEN Raise(Exc("UnidentifiedImageError", 0))
      ELSE Ok([height |-> target_size[1], width |-> target_size[2],
               px |-> FileSystem[path].px])

\* image.load_img(path, target_size=(h, w)): open, decode, resize to h x w
\* whatever the size of the source.
load_img(path, target_size) ==
  IF path \notin DOMAIN FileSystem
    THEN Raise(Exc("FileNotFoundError", 2))
    ELSE IF ~FileSystem[path].decodable
      THEN Raise(Exc("UnidentifiedImageError", 0))
      ELSE Ok([height |-> target_size[1], width |-> target_size[2],
               px |-> FileSystem[path].px])

\* image.img_to_array(img): a float array of shape (height, width, 3) with
\* the pixel values 0..255 (scale 255).
img_to_array(img) ==
  [shape |-> <<img.height, img.width, 3>>, px |-> img.px, scale |-> 255]

\* np.expand_dims(a, axis=0)
expand_dims(a) == [a EXCEPT !.shape = <<1>> \o a.shape]

\* a /= 255.0: the values become fractions of 1, kept here in thousandths.
Normalize(a) == [a EXCEPT !.px = (a.px * 1000) \div 255, !.scale = 1]

(***************************************************************************)
(* The Classifier (model.predict), an opaque collaborator                  *)
(***************************************************************************)

\* The outputs a correctly configured 4-class model can give.
Confidences4 == [0..3 -> 0..MaxConf]

\* Outputs of a model that does not match the catalog: five classes with the
\* maximum at index 4, five classes with the maximum at index 1, three
\* classes.
Malformed ==
  { [i \in 0..4 |-> IF i = 4 THEN 1 ELSE 0],
    [i \in 0..4 |-> IF i = 1 THEN 1 ELSE 0],
    [i \in 0..2 |-> IF i = 2 THEN 1 ELSE 0] }

\* model.predict returns a batch holding one confidence vector, or raises.
ClassifierOutcomes ==
  {Raise(Exc("InferenceError", 0))}
    \cup {Ok(<<c>>) : c \in Confidences4 \cup Malformed}

NoOutcome == [raised |-> FALSE, value |-> <<>>]

RECURSIVE ArgMaxLastFrom(_, _, _)
ArgMaxLastFrom(a, i, best) ==
  IF i \notin DOMAIN a THEN best
  ELSE ArgMaxLastFrom(a, i + 1, IF a[i] >= a[best] THEN i ELSE best)

\* An argmax that keeps the last of several maxima.
ArgMaxLast(a) == ArgMaxLastFrom(a, 1, 0)

RECURSIVE ArgMaxFrom(_, _, _)
ArgMaxFrom(a, i, best) ==
  IF i \notin DOMAIN a THEN best
  ELSE ArgMaxFrom(a, i + 1, IF a[i] > a[best] THEN i ELSE best)

\* np.argmax(a): scan from index 0, replace the best only by a strictly
\* greater entry.
ArgMax(a) == ArgMaxFrom(a, 1, 0)

(***************************************************************************)
(* Results of predict_growth_stage                                         *)
(***************************************************************************)

EmptyHtml == [kind |-> "empty"]

NoResult == <<>>

ModelNotLoadedResult ==
  << [kind |-> "model_not_loaded",
      text |-> "Model not loaded. Please check if the model file exists."],
     EmptyHtml, EmptyHtml >>

NoInputResult ==
  << [kind |-> "no_input", text |-> "Please upload an image first."],
     EmptyHtml, EmptyHtml >>

ErrorResult(e) ==
  << [kind |-> "error", text |-> "An error occurred: " \o Str(e)],
     EmptyHtml, EmptyHtml >>

Returned(r) == [pc |-> "done", result |-> r]

Propagated == [pc |-> "raised", result |-> NoResult]

\* A handler that lets the KeyError of a catalog lookup escape to the caller.
ExceptHandlerEscalateKeyError(e) ==
  IF e.type = "KeyError" THEN Propagated ELSE Returned(ErrorResult(e))

\* A handler that tries the preprocessing again when the file failed.
ExceptHandlerRetry(e) ==
  IF e.type \in {"FileNotFoundError", "UnidentifiedImageError"}
    THEN [pc |-> "load_img", result |-> NoResult]
    ELSE Returned(ErrorResult(e))

\* A handler that catches only the file errors of the preprocessing.
ExceptHandlerOSErrorOnly(e) ==
  IF e.type \in {"FileNotFoundError", "UnidentifiedImageError"}
    THEN Returned(ErrorResult(e))
    ELSE Propagated

\* except Exception as e: return f"An error occurred: {str(e)}", "", ""
ExceptHandler(e) == Returned(ErrorResult(e))

\* f"{x:.1f}" of a percentage that is a whole number.
FormatPct(pct) == ToString(pct) \o ".0"

\* A confidence (in tenths) times 100, as a percentage.
Times100(conf) == conf * 10

(***************************************************************************)
(* One call of predict_growth_stage: its frame                             *)
(***************************************************************************)

NoText == [kind |-> "none"]

\* The frame of a call: its position, its argument, its locals, its result,
\* and the history of what it invoked (loadImgCalls, predictCalls, the tensor
\* handed to model.predict and what model.predict answered).
IdleCall ==
  [pc |-> "idle", img_file |-> "None", img |-> NoImage, img_array |-> NoTensor,
   prediction |-> <<>>, confidences |-> <<>>, predicted_class_index |-> -1,
   max_confidence |-> -1, predicted_label |-> "None", result_text |-> NoText,
   result |-> NoResult, loadImgCalls |-> 0, predictCalls |-> 0,
   predictArg |-> NoTensor, classifierOut |-> NoOutcome]

\* Leaving the function: the locals are gone, the result and the history stay.
Finish(call, out) ==
  [IdleCall EXCEPT !.pc = out.pc, !.result = out.result,
                   !.img_file = call.img_file,
                   !.loadImgCalls = call.loadImgCalls,
                   !.predictCalls = call.predictCalls,
                   !.predictArg = call.predictArg,
                   !.classifierOut = call.classifierOut]

Continue(next) == [pc |-> next, result |-> NoResult]

\* The two guards in the other order: the missing input is reported first.
EnterOutcomeNoneFirst(loaded, img_file) ==
  IF img_file = "None" THEN Returned(NoInputResult)
  ELSE IF ~loaded THEN Returned(ModelNotLoadedResult)
  ELSE Continue("load_img")

\* The guard on the missing input left out.
EnterOutcomeNoNoneCheck(loaded, img_file) ==
  IF ~loaded THEN Returned(ModelNotLoadedResult) ELSE Continue("load_img")

\* if not model_loaded: return ...; if img_file is None: return ...
EnterOutcome(loaded, img_file) ==
  IF ~loaded THEN Returned(ModelNotLoadedResult)
  ELSE IF img_file = "None" THEN Returned(NoInputResult)
  ELSE Continue("load_img")

\* img_array kept in one module-level variable that every call shares.
SetImgArrayGlobal(cs, h, a) ==
  [x \in DOMAIN cs |-> [cs[x] EXCEPT !.img_array = a]]

\* Assignment to the local img_array of the frame of call h.
SetImgArray(cs, h, a) == [cs EXCEPT ![h].img_array = a]

\* A lookup that falls back to the first label: labels.get(idx, labels[0]).
LabelLookupDefault(labels, idx) ==
  IF idx \in DictKeys(labels) THEN Ok(DictGet(labels, idx))
  ELSE Ok(labels[1].value)

\* class_labels[idx]: a KeyError when idx is no key.
LabelLookup(labels, idx) ==
  IF idx \in DictKeys(labels) THEN Ok(DictGet(labels, idx))
  ELSE Raise(Exc("KeyError", idx))

\* Lines 135-147: confidences, predicted index, its confidence, its label,
\* the summary text.
ClassifyOutcome(labels, prediction) ==
  LET confidences == prediction[1]
      idx == ArgMax(confidences)
      max_confidence == confidences[idx]
      looked == LabelLookup(labels, idx)
  IN IF looked.raised THEN looked
     ELSE Ok([confidences |-> confidences,
              predicted_class_index |-> idx,
              max_confidence |-> max_confidence,
              predicted_label |-> looked.value,
              result_text |->
                [kind |-> "prediction", label |-> looked.value,
                 confidence |-> FormatPct(Times100(max_confidence))]])

\* The style of the entry of the predicted class and of the other entries.
EntryStyle(is_predicted) ==
  IF is_predicted
    THEN [weight |-> "bold", border |-> "2px solid #4CAF50",
          text_color |-> "#2d5016"]
    ELSE [weight |-> "normal", border |-> "1px solid #ddd",
          text_color |-> "#666"]

\* Every entry is styled as the prediction when it holds the maximum value.
BreakdownEntryByValue(item, confidences, idx) ==
  [class_idx |-> item.key, label |-> item.value,
   conf |-> confidences[item.key],
   conf_pct |-> FormatPct(Times100(confidences[item.key])),
   style |-> EntryStyle(confidences[item.key] = confidences[idx])]

\* One pass of the loop over class_labels.items().
BreakdownEntry(item, confidences, idx) ==
  [class_idx |-> item.key, label |-> item.value,
   conf |-> confidences[item.key],
   conf_pct |-> FormatPct(Times100(confidences[item.key])),
   style |-> EntryStyle(item.key = idx)]

\* The loop of lines 153-178, in the order of class_labels.items(); reading
\* confidences[class_idx] past the end raises IndexError.
ConfidenceBreakdown(labels, confidences, idx) ==
  LET bad == {i \in 1..Len(labels) : labels[i].key \notin DOMAIN confidences}
  IN IF bad # {}
       THEN Raise(Exc("IndexError",
                      labels[CHOOSE i \in bad : \A j \in bad : i <= j].key))
       ELSE Ok([kind |-> "confidence",
                entries |-> [i \in 1..Len(labels) |->
                               BreakdownEntry(labels[i], confidences, idx)]])

\* for item in items: care_html += "<li>... {item}</li>"
RenderList(items) == [i \in 1..Len(items) |-> "<li>" \o items[i] \o "</li>"]

\* The care record is taken from the entry after the predicted one.
CareHtmlNext(care, idx) ==
  LET k == (idx + 1) % Len(care)
  IN IF k \notin DictKeys(care) THEN Raise(Exc("KeyError", k))
     ELSE LET care_info == DictGet(care, k)
          IN Ok([kind |-> "care", title |-> care_info.title,
                 description |-> care_info.description,
                 do |-> RenderList(care_info.do),
                 dont |-> RenderList(care_info.dont)])

\* Lines 183-215: care_info = care_instructions[idx], rendered.
CareHtml(care, idx) ==
  IF idx \notin DictKeys(care) THEN Raise(Exc("KeyError", idx))
  ELSE LET care_info == DictGet(care, idx)
       IN Ok([kind |-> "care", title |-> care_info.title,
              description |-> care_info.description,
              do |-> RenderList(care_info.do),
              dont |-> RenderList(care_info.dont)])

\* Lines 150-217: the two HTML fragments and the returned tuple.
RenderOutcome(labels, care, call) ==
  LET conf == ConfidenceBreakdown(labels, call.confidences,
                                  call.predicted_class_index)
      carehtml == CareHtml(care, call.predicted_class_index)
  IN IF conf.raised THEN conf
     ELSE IF carehtml.raised THEN carehtml
     ELSE Ok(<<call.result_text, conf.value, carehtml.value>>)

(***************************************************************************)
(* app.py: startup                                                         *)
(***************************************************************************)

\* The load failure is not caught (as in predict.py): the import dies.
LoadFailureUncaught == [mainpc |-> "crashed", model_loaded |-> FALSE]

\* except Exception as e: print(...); model_loaded = False
LoadFailure == [mainpc |-> "loaded", model_loaded |-> FALSE]

\* model = load_model(...); model_loaded = True
LoadSuccess == [mainpc |-> "loaded", model_loaded |-> TRUE]

\* Lines 7-12, run once while the module is imported.  Until then the name
\* model_loaded is unbound (FALSE here; nothing reads it before).
LoadModel ==
  /\ program = "app.py"
  /\ mainpc = "import"
  /\ \E ok \in BOOLEAN :
       LET out == IF ok THEN LoadSuccess ELSE LoadFailure
       IN /\ mainpc' = out.mainpc
          /\ model_loaded' = out.model_loaded
  /\ loadAttempts' = loadAttempts + 1
  /\ UNCHANGED <<program, class_labels, care_instructions, calls, script, cleanup>>

\* Lines 14-433: the catalog dicts are bound, the interface is built with
\* its two listeners, and iface.launch starts serving.
Launch ==
  /\ program = "app.py"
  /\ mainpc = "loaded"
  /\ class_labels' = ClassLabelsInit
  /\ care_instructions' = CareInstructionsInit
  /\ mainpc' = "serving"
  /\ UNCHANGED <<program, model_loaded, loadAttempts, calls, script, cleanup>>

(***************************************************************************)
(* app.py: predict_growth_stage, step by step, for the call of handler h   *)
(***************************************************************************)

\* The serving process accepts an event of listener h.
CanDispatch(h) == mainpc = "serving" /\ calls[h].pc = "idle"

\* predict_btn.click / image_input.change: the listener calls
\* predict_growth_stage with the value of image_input.
Dispatch(h) ==
  /\ program = "app.py"
  /\ CanDispatch(h)
  /\ \E f \in ImgInputs :
       calls' = [calls EXCEPT ![h] = [IdleCall EXCEPT !.pc = "enter",
                                                      !.img_file = f]]
  /\ UNCHANGED <<program, mainpc, model_loaded, loadAttempts, class_labels,
                 care_instructions, script, cleanup>>

\* Lines 118-122.
Enter(h) ==
  /\ calls[h].pc = "enter"
  /\ LET out == EnterOutcome(model_loaded, calls[h].img_file)
     IN calls' = [calls EXCEPT ![h] =
                    IF out.pc = "done" THEN Finish(@, out)
                    ELSE [@ EXCEPT !.pc = out.pc]]
  /\ UNCHANGED <<program, mainpc, model_loaded, loadAttempts, class_labels,
                 care_instructions, script, cleanup>>

\* Line 126.
LoadImg(h) ==
  /\ calls[h].pc = "load_img"
  /\ LET r == load_img(calls[h].img_file, <<img_width, img_height>>)
         counted == [calls[h] EXCEPT !.loadImgCalls = @ + 1]
     IN calls' = [calls EXCEPT ![h] =
                    IF r.raised THEN Finish(counted, ExceptHandler(r.exc))
                    ELSE [counted EXCEPT !.img = r.value,
                                         !.pc = "img_to_array"]]
  /\ UNCHANGED <<program, mainpc, model_loaded, loadAttempts, class_labels,
                 care_instructions, script, cleanup>>

\* Lines 127-128.
ImgToArray(h) ==
  /\ calls[h].pc = "img_to_array"
  /\ calls' = [SetImgArray(calls, h, expand_dims(img_to_array(calls[h].img)))
                 EXCEPT ![h].pc = "normalize"]
  /\ UNCHANGED <<program, mainpc, model_loaded, loadAttempts, class_labels,
                 care_instructions, script, cleanup>>

\* Line 129: the tensor of the call is changed in place.
NormalizeStep(h) ==
  /\ calls[h].pc = "normalize"
  /\ calls' = [SetImgArray(calls, h, Normalize(calls[h].img_array))
                 EXCEPT ![h].pc = "predict"]
  /\ UNCHANGED <<program, mainpc, model_loaded, loadAttempts, class_labels,
                 care_instructions, script, cleanup>>

\* Line 132: the Classifier answers with a batch or raises.
Predict(h) ==
  /\ calls[h].pc = "predict"
  /\ \E o \in ClassifierOutcomes :
       LET invoked == [calls[h] EXCEPT !.predictCalls = @ + 1,
                                       !.predictArg = calls[h].img_array,
                                       !.classifierOut = o]
       IN calls' = [calls EXCEPT ![h] =
                      IF o.raised THEN Finish(invoked, ExceptHandler(o.exc))
                      ELSE [invoked EXCEPT !.prediction = o.value,
                                           !.pc = "classify"]]
  /\ UNCHANGED <<program, mainpc, model_loaded, loadAttempts, class_labels,
                 care_instructions, script, cleanup>>

\* Lines 135-147.
Classify(h) ==
  /\ calls[h].pc = "classify"
  /\ LET r == ClassifyOutcome(class_labels, calls[h].prediction)
     IN calls' = [calls EXCEPT ![h] =
                    IF r.raised THEN Finish(@, ExceptHandler(r.exc))
                    ELSE [@ EXCEPT
                            !.confidences = r.value.confidences,
                            !.predicted_class_index =
                               r.value.predicted_class_index,
                            !.max_confidence = r.value.max_confidence,
                            !.predicted_label = r.value.predicted_label,
                            !.result_text = r.value.result_text,
                            !.pc = "render"]]
  /\ UNCHANGED <<program, mainpc, model_loaded, loadAttempts, class_labels,
                 care_instructions, script, cleanup>>

\* Lines 150-217.
Render(h) ==
  /\ calls[h].pc = "render"
  /\ LET r == RenderOutcome(class_labels, care_instructions, calls[h])
     IN calls' = [calls EXCEPT ![h] =
                    IF r.raised THEN Finish(@, ExceptHandler(r.exc))
                    ELSE Finish(@, Returned(r.value))]
  /\ UNCHANGED <<program, mainpc, model_loaded, loadAttempts, class_labels,
                 care_instructions, script, cleanup>>

\* The listener hands the returned tuple to its three output components and
\* is free for the next event.
Deliver(h) ==
  /\ calls[h].pc \in {"done", "raised"}
  /\ calls' = [calls EXCEPT ![h] = IdleCall]
  /\ UNCHANGED <<program, mainpc, model_loaded, loadAttempts, class_labels,
                 care_instructions, script, cleanup>>

(***************************************************************************)
(* predict.py: the script                                                  *)
(***************************************************************************)

ScriptStart ==
  [pc |-> "load_model", img_array |-> NoTensor, prediction |-> <<>>,
   predicted_class_index |-> -1, printed |-> <<>>]

\* Line 6: no handler around the load; a failure ends the script.
ScriptLoadModel ==
  /\ program = "predict.py"
  /\ script.pc = "load_model"
  /\ \E ok \in BOOLEAN :
       script' = [script EXCEPT !.pc = IF ok THEN "preprocess" ELSE "crashed"]
  /\ UNCHANGED <<program, mainpc, model_loaded, loadAttempts, class_labels,
                 care_instructions, calls, cleanup>>

\* preprocess_image(img_path), lines 13-18, on whatever new_image_path names.
preprocess_image(img_path) ==
  LET r == load_img(img_path, <<img_width, img_height>>)
  IN IF r.raised THEN r
     ELSE Ok(Normalize(expand_dims(img_to_array(r.value))))

\* Line 22.
ScriptPreprocess ==
  /\ script.pc = "preprocess"
  /\ \E p \in Paths :
       LET r == preprocess_image(p)
       IN script' = IF r.raised THEN [script EXCEPT !.pc = "crashed"]
                    ELSE [script EXCEPT !.img_array = r.value,
                                        !.pc = "predict"]
  /\ UNCHANGED <<program, mainpc, model_loaded, loadAttempts, class_labels,
                 care_instructions, calls, cleanup>>

\* Line 23.
ScriptPredict ==
  /\ script.pc = "predict"
  /\ \E o \in ClassifierOutcomes :
       script' = IF o.raised THEN [script EXCEPT !.pc = "crashed"]
                 ELSE [script EXCEPT !.prediction = o.value, !.pc = "report"]
  /\ UNCHANGED <<program, mainpc, model_loaded, loadAttempts, class_labels,
                 care_instructions, calls, cleanup>>

\* Lines 25-29: the probabilities are printed, then the label of the
\* predicted index; a KeyError of the lookup ends the script in between.
ScriptReport ==
  /\ script.pc = "report"
  /\ LET idx == ArgMax(script.prediction[1])
         looked == LabelLookup(script_class_labels, idx)
         line1 == [kind |-> "probabilities", value |-> script.prediction[1]]
     IN script' =
          IF looked.raised
            THEN [script EXCEPT !.predicted_class_index = idx,
                                !.printed = <<line1>>, !.pc = "crashed"]
            ELSE [script EXCEPT !.predicted_class_index = idx,
                                !.printed = <<line1, [kind |-> "stage",
                                              value |-> looked.value]>>,
                                !.pc = "exit"]
  /\ UNCHANGED <<program, mainpc, model_loaded, loadAttempts, class_labels,
                 care_instructions, calls, cleanup>>

(***************************************************************************)
(* cleanup.py: the dataset script                                          *)
(***************************************************************************)

\* A file name is the sequence of its characters.
UpperCase ==
  << "A", "B", "C", "D", "E", "F", "G", "H", "I", "J", "K", "L", "M",
     "N", "O", "P", "Q", "R", "S", "T", "U", "V", "W", "X", "Y", "Z" >>

LowerCase ==
  << "a", "b", "c", "d", "e", "f", "g", "h", "i", "j", "k", "l", "m",
     "n", "o", "p", "q", "r", "s", "t", "u", "v", "w", "x", "y", "z" >>

\* str.lower(): every upper-case letter becomes its lower-case letter.
Lower(name) ==
  [i \in 1..Len(name) |->
     IF \E k \in 1..Len(UpperCase) : UpperCase[k] = name[i]
       THEN LowerCase[CHOOSE k \in 1..Len(UpperCase) : UpperCase[k] = name[i]]
       ELSE name[i]]

\* ('.jpg', '.jpeg', '.png')
valid_extensions ==
  << << ".", "j", "p", "g" >>, << ".", "j", "p", "e", "g" >>,
     << ".", "p", "n", "g" >> >>

\* str.endswith(suffix)
EndsWith(name, suffix) ==
  /\ Len(name) >= Len(suffix)
  /\ SubSeq(name, Len(name) - Len(suffix) + 1, Len(name)) = suffix

\* The name is compared as it is written, without lower().
HasValidExtensionCaseSensitive(file) ==
  \E k \in 1..Len(valid_extensions) : EndsWith(file, valid_extensions[k])

\* file.lower().endswith(valid_extensions)
HasValidExtension(file) ==
  \E k \in 1..Len(valid_extensions) :
     EndsWith(Lower(file), valid_extensions[k])

\* The names met in the tree: a.jpg, B.JPG, c.jpeg, d.Png, e.txt, f.gif,
\* g.jpg.bak, jpeg.
DatasetNames ==
  { << "a", ".", "j", "p", "g" >>, << "B", ".", "J", "P", "G" >>,
    << "c", ".", "j", "p", "e", "g" >>, << "d", ".", "P", "n", "g" >>,
    << "e", ".", "t", "x", "t" >>, << "f", ".", "g", "i", "f" >>,
    << "g", ".", "j", "p", "g", ".", "b", "a", "k" >>,
    << "j", "p", "e", "g" >> }

\* A file: its name, and whether Image.open(...) and img.verify() go through.
DatasetFiles == [name : DatasetNames, verifies : BOOLEAN]

\* What os.walk(root_dir) yields, directory after directory, as one
\* sequence of files (none when root_dir does not exist).
Trees == UNION {[1..n -> DatasetFiles] : n \in 0..MaxFiles}

CleanupStart ==
  [pc |-> "start", files |-> <<>>, i |-> 1, on_disk |-> {},
   total_files |-> 0, corrupted_count |-> 0, printed |-> <<>>]

\* Lines 11-14 and 36-37: the counters are zeroed and the walk begins.
CleanupWalk ==
  /\ program = "cleanup.py"
  /\ cleanup.pc = "start"
  /\ \E t \in Trees :
       cleanup' = [cleanup EXCEPT !.files = t, !.on_disk = 1..Len(t),
                                  !.pc = "loop"]
  /\ UNCHANGED <<program, mainpc, model_loaded, loadAttempts, class_labels,
                 care_instructions, calls, script>>

\* Lines 15-27, one pass of the loop: the file is counted; when its name has
\* a valid extension it is opened and verified, and when that raises it is
\* removed and counted as corrupted.  os.remove may raise itself, which
\* nothing catches.
CleanupVisit ==
  /\ cleanup.pc = "loop"
  /\ cleanup.i <= Len(cleanup.files)
  /\ LET file == cleanup.files[cleanup.i]
         counted == [cleanup EXCEPT !.total_files = @ + 1]
     IN IF HasValidExtension(file.name) /\ ~file.verifies
          THEN \E removed \in BOOLEAN :
                 LET told == [counted EXCEPT !.printed =
                                Append(@, [kind |-> "removing",
                                           value |-> cleanup.i])]
                 IN cleanup' =
                      IF removed
                        THEN [told EXCEPT !.on_disk = @ \ {cleanup.i},
                                          !.corrupted_count = @ + 1,
                                          !.i = @ + 1]
                        ELSE [told EXCEPT !.pc = "crashed"]
          ELSE cleanup' = [counted EXCEPT !.i = @ + 1]
  /\ UNCHANGED <<program, mainpc, model_loaded, loadAttempts, class_labels,
                 care_instructions, calls, script>>

\* Lines 29-33.
CleanupReport ==
  /\ cleanup.pc = "loop"
  /\ cleanup.i > Len(cleanup.files)
  /\ cleanup' =
       [cleanup EXCEPT
          !.printed = @ \o << [kind |-> "scanned",
                               value |-> cleanup.total_files],
                              IF cleanup.corrupted_count > 0
                                THEN [kind |-> "removed",
                                      value |-> cleanup.corrupted_count]
                                ELSE [kind |-> "none_found", value |-> 0] >>,
          !.pc = "done"]
  /\ UNCHANGED <<program, mainpc, model_loaded, loadAttempts, class_labels,
                 care_instructions, calls, script>>

(***************************************************************************)
(* Specification                                                           *)
(***************************************************************************)

Init ==
  /\ program \in {"app.py", "predict.py", "cleanup.py"}
  /\ mainpc = "import"
  /\ model_loaded = FALSE
  /\ loadAttempts = 0
  /\ class_labels = <<>>
  /\ care_instructions = <<>>
  /\ calls = [h \in Handlers |-> IdleCall]
  /\ script = ScriptStart
  /\ cleanup = CleanupStart

Next ==
  \/ LoadModel
  \/ Launch
  \/ \E h \in Handlers : Dispatch(h)
  \/ \E h \in Handlers : Enter(h)
  \/ \E h \in Handlers : LoadImg(h)
  \/ \E h \in Handlers : ImgToArray(h)
  \/ \E h \in Handlers : NormalizeStep(h)
  \/ \E h \in Handlers : Predict(h)
  \/ \E h \in Handlers : Classify(h)
  \/ \E h \in Handlers : Render(h)
  \/ \E h \in Handlers : Deliver(h)
  \/ ScriptLoadModel
  \/ ScriptPreprocess
  \/ ScriptPredict
  \/ ScriptReport
  \/ CleanupWalk
  \/ CleanupVisit
  \/ CleanupReport

Spec == Init /\ [][Next]_vars

(***************************************************************************)
(* Vocabulary of the properties                                            *)
(***************************************************************************)

Done(h) == calls[h].pc = "done"

\* The call of h was answered by the Classifier with a confidence vector.
Answered(h) == calls[h].predictCalls > 0 /\ ~calls[h].classifierOut.raised

AnsweredConfidences(h) == calls[h].classifierOut.value[1]

\* k is an index of a maximum of c, and the lowest such index.
IsFirstMax(c, k) ==
  /\ k \in DOMAIN c
  /\ \A j \in DOMAIN c : c[j] <= c[k] /\ (j < k => c[j] < c[k])

DeclaredLabels == 0..3

IsSuccess(r) == Len(r) = 3 /\ r[1].kind = "prediction"

IsOrdinaryError(r) ==
  Len(r) = 3 /\ r[1].kind = "error" /\ r[2] = EmptyHtml /\ r[3] = EmptyHtml

\* C1: when the load of the model failed at startup, every call, whatever
\* its input, ends with the "model not loaded" result, and never reaches
\* load_img or model.predict.
Thm_C1 ==
  (mainpc = "serving" /\ ~model_loaded) =>
     \A h \in Handlers :
        /\ calls[h].pc \in {"idle", "enter", "done"}
        /\ calls[h].loadImgCalls = 0
        /\ calls[h].predictCalls = 0
        /\ Done(h) => calls[h].result = ModelNotLoadedResult

Wit_C1 ==
  /\ mainpc = "serving" /\ ~model_loaded
  /\ Done("click") /\ calls["click"].img_file = "small.jpg"
  /\ calls["click"].result = ModelNotLoadedResult
  /\ Done("change") /\ calls["change"].img_file = "None"
  /\ calls["change"].result = ModelNotLoadedResult

\* C2: with the model loaded, a call with img_file = None ends with the
\* "no input" result, and at no point of that call is load_img or
\* model.predict invoked.
Thm_C2 ==
  \A h \in Handlers :
     (model_loaded /\ calls[h].pc # "idle" /\ calls[h].img_file = "None") =>
        /\ calls[h].pc \in {"enter", "done"}
        /\ calls[h].loadImgCalls = 0
        /\ calls[h].predictCalls = 0
        /\ Done(h) => calls[h].result = NoInputResult

Wit_C2 ==
  /\ model_loaded
  /\ Done("change") /\ calls["change"].img_file = "None"
  /\ calls["change"].result = NoInputResult

\* C3: with the model loaded, a call with a path that names no file ends
\* with the error result of the FileNotFoundError of load_img, without
\* model.predict being invoked; and model.predict is invoked in a call only
\* after load_img of that call was invoked once on a file that decodes.
Thm_C3 ==
  \A h \in Handlers :
     /\ (model_loaded /\ calls[h].img_file = "missing.jpg") =>
           /\ calls[h].predictCalls = 0
           /\ Done(h) =>
                /\ calls[h].result = ErrorResult(Exc("FileNotFoundError", 2))
                /\ calls[h].loadImgCalls = 1
     /\ calls[h].predictCalls > 0 =>
           /\ calls[h].loadImgCalls = 1
           /\ calls[h].img_file \in DOMAIN FileSystem
           /\ FileSystem[calls[h].img_file].decodable

Wit_C3 ==
  /\ model_loaded
  /\ Done("click") /\ calls["click"].img_file = "missing.jpg"
  /\ IsOrdinaryError(calls["click"].result)
  /\ calls["click"].predictCalls = 0

\* C4: for every length-4 confidence vector the Classifier returns, the
\* index computed by predict_growth_stage and by predict_stage is an index
\* of a maximum, the lowest one when several entries share the maximum; the
\* summary names the label of that index and the confidence at that index,
\* which no entry of the vector exceeds.
Thm_C4 ==
  /\ \A h \in Handlers :
       (Answered(h) /\ DOMAIN AnsweredConfidences(h) = DeclaredLabels) =>
          LET c == AnsweredConfidences(h)
          IN /\ calls[h].pc = "render" =>
                  /\ IsFirstMax(c, calls[h].predicted_class_index)
                  /\ calls[h].max_confidence = c[calls[h].predicted_class_index]
             /\ Done(h) =>
                  /\ IsSuccess(calls[h].result)
                  /\ \E k \in DeclaredLabels :
                       /\ IsFirstMax(c, k)
                       /\ calls[h].result[1].label = ClassLabelsInit[k + 1].value
                       /\ calls[h].result[1].confidence
                            = FormatPct(Times100(c[k]))
                       /\ \A j \in DeclaredLabels : c[j] <= c[k]
  /\ (script.pc = "exit" /\ DOMAIN script.prediction[1] = DeclaredLabels) =>
       /\ IsFirstMax(script.prediction[1], script.predicted_class_index)
       /\ script.printed[2].value
            = script_class_labels[script.predicted_class_index + 1].value

\* A tie between index 1 and index 2 is reported as index 1.
Wit_C4 ==
  /\ Done("click") /\ Answered("click")
  /\ AnsweredConfidences("click") = [i \in 0..3 |-> IF i \in {1, 2} THEN 1 ELSE 0]
  /\ calls["click"].result[1].label = "Flowering_Initiation"

\* C5: no failure inside a call reaches the caller: a call never ends by
\* raising, every finished call holds a 3-tuple, and once the result of a
\* failed call is delivered the listener can be dispatched again, with
\* model_loaded as it was.
Thm_C5 ==
  /\ [](\A h \in Handlers :
          /\ calls[h].pc # "raised"
          /\ Done(h) => Len(calls[h].result) = 3)
  /\ [][\A h \in Handlers :
          (Done(h) /\ IsOrdinaryError(calls[h].result) /\ calls'[h].pc = "idle")
             => (CanDispatch(h))' /\ model_loaded' = model_loaded]_vars

\* A call failed on an output of three entries, read past its end.
Wit_C5 ==
  \E h \in Handlers :
     /\ Done(h) /\ Answered(h)
     /\ DOMAIN AnsweredConfidences(h) = 0..2
     /\ calls[h].result = ErrorResult(Exc("IndexError", 3))

\* The predicted index of the answer given to h is no key of the catalog.
UnknownLabel(h) ==
  /\ Answered(h)
  /\ \E k \in DOMAIN AnsweredConfidences(h) :
        IsFirstMax(AnsweredConfidences(h), k) /\ k \notin DeclaredLabels

\* C6, as claimed: an unknown label is never turned into the ordinary error
\* result of an image-processing failure.
Orig_C6 ==
  \A h \in Handlers :
     (UnknownLabel(h) /\ Done(h)) => ~IsOrdinaryError(calls[h].result)

\* C6, amended: an unknown label gets no default label (the call goes no
\* further than the lookup and ends without a label), and it is not
\* escalated either: the KeyError is caught like any other failure and the
\* call returns the ordinary error result naming the index.
Thm_C6 ==
  \A h \in Handlers :
     UnknownLabel(h) =>
        /\ calls[h].pc \in {"classify", "done"}
        /\ calls[h].predicted_label = "None"
        /\ Done(h) =>
             \E k \in DOMAIN AnsweredConfidences(h) :
                /\ IsFirstMax(AnsweredConfidences(h), k)
                /\ calls[h].result = ErrorResult(Exc("KeyError", k))
                /\ IsOrdinaryError(calls[h].result)

Wit_C6 ==
  \E h \in Handlers :
     /\ UnknownLabel(h) /\ Done(h)
     /\ calls[h].result[1].text = "An error occurred: 4"

\* C7: a successful call returns a breakdown with one entry per declared
\* label, in index order, entry i holding the i-th confidence and the
\* catalog label of i; exactly one entry is styled as the prediction, the
\* one whose label the summary names.
Thm_C7 ==
  \A h \in Handlers :
     (Done(h) /\ IsSuccess(calls[h].result)) =>
        LET e == calls[h].result[2].entries
            c == AnsweredConfidences(h)
            marked == {i \in 1..Len(e) : e[i].style.weight = "bold"}
        IN /\ Len(e) = Cardinality(DeclaredLabels)
           /\ \A i \in DeclaredLabels :
                 /\ e[i + 1].class_idx = i
                 /\ e[i + 1].label = ClassLabelsInit[i + 1].value
                 /\ e[i + 1].conf = c[i]
                 /\ e[i + 1].conf_pct = FormatPct(Times100(c[i]))
           /\ Cardinality(marked) = 1
           /\ \A i \in marked :
                 /\ e[i].label = calls[h].result[1].label
                 /\ IsFirstMax(c, e[i].class_idx)

\* All four entries tie.
Wit_C7 ==
  \E h \in Handlers :
     /\ Done(h) /\ IsSuccess(calls[h].result)
     /\ AnsweredConfidences(h) = [i \in 0..3 |-> 1]
     /\ calls[h].result[2].entries[1].style.weight = "bold"
     /\ calls[h].result[2].entries[2].style.weight = "normal"

\* C8: a successful call renders the care record of the index whose label
\* the summary names: for a first maximum at k, the label is class_labels[k]
\* and title, description, do items and dont items are those of
\* care_instructions[k], in catalog order.
Thm_C8 ==
  \A h \in Handlers :
     (Done(h) /\ IsSuccess(calls[h].result)) =>
        \E k \in DeclaredLabels :
           LET rec == CareInstructionsInit[k + 1].value
               care == calls[h].result[3]
           IN /\ IsFirstMax(AnsweredConfidences(h), k)
              /\ CareInstructionsInit[k + 1].key = k
              /\ calls[h].result[1].label = ClassLabelsInit[k + 1].value
              /\ care.title = rec.title
              /\ care.description = rec.description
              /\ Len(care.do) = Len(rec.do)
              /\ \A i \in 1..Len(rec.do) :
                    care.do[i] = "<li>" \o rec.do[i] \o "</li>"
              /\ Len(care.dont) = Len(rec.dont)
              /\ \A i \in 1..Len(rec.dont) :
                    care.dont[i] = "<li>" \o rec.dont[i] \o "</li>"

Wit_C8 ==
  \E h \in Handlers :
     /\ Done(h) /\ IsSuccess(calls[h].result)
     /\ AnsweredConfidences(h) = [i \in 0..3 |-> IF i = 2 THEN 1 ELSE 0]
     /\ calls[h].result[1].label = "Fruiting_and_Ripening"
     /\ calls[h].result[3].title = "Fruiting and Ripening Stage Care"

\* C9: the load is attempted once, before any call is dispatched; no step
\* after it changes model_loaded; a failed load does not keep the process
\* from serving, and a serving process keeps serving.
Thm_C9 ==
  /\ [](/\ loadAttempts <= 1
        /\ mainpc # "crashed"
        /\ (\E h \in Handlers : calls[h].pc # "idle") =>
              (loadAttempts = 1 /\ mainpc = "serving"))
  /\ [][mainpc # "import" =>
          /\ model_loaded' = model_loaded
          /\ loadAttempts' = loadAttempts]_vars
  /\ [][mainpc = "serving" => mainpc' = "serving"]_vars

\* After a failed load, one call is finished and another is on its way.
Wit_C9 ==
  /\ mainpc = "serving" /\ ~model_loaded /\ loadAttempts = 1
  /\ Done("click") /\ calls["change"].pc = "enter"

\* What one call returns when it runs alone, from the first line to the
\* last, on the path f while the Classifier answers its tensor with out.
AloneResult(loaded, f, out) ==
  IF ~loaded THEN ModelNotLoadedResult
  ELSE IF f = "None" THEN NoInputResult
  ELSE LET img == load_img(f, <<img_width, img_height>>)
       IN IF img.raised THEN ErrorResult(img.exc)
          ELSE IF out.raised THEN ErrorResult(out.exc)
          ELSE LET cl == ClassifyOutcome(ClassLabelsInit, out.value)
               IN IF cl.raised THEN ErrorResult(cl.exc)
                  ELSE LET r == RenderOutcome(ClassLabelsInit,
                                              CareInstructionsInit, cl.value)
                       IN IF r.raised THEN ErrorResult(r.exc) ELSE r.value

\* The tensor a call makes of the file f.
OwnTensor(f) ==
  Normalize(expand_dims(img_to_array(
     load_img(f, <<img_width, img_height>>).value)))

\* C10: in every interleaving of the two listeners' calls, each call ends
\* with the result it has when run alone on its own input, the Classifier
\* is handed the tensor made of the call's own file, no step of a call
\* writes model_loaded, class_labels or care_instructions, and a step
\* changes the frame of one call only.
Thm_C10 ==
  /\ [](\A h \in Handlers :
          /\ Done(h) => calls[h].result
                          = AloneResult(model_loaded, calls[h].img_file,
                                        calls[h].classifierOut)
          /\ calls[h].predictCalls > 0 =>
                calls[h].predictArg = OwnTensor(calls[h].img_file)
          /\ calls[h].pc = "predict" =>
                calls[h].img_array = OwnTensor(calls[h].img_file))
  /\ [][mainpc = "serving" =>
          /\ model_loaded' = model_loaded
          /\ class_labels' = class_labels
          /\ care_instructions' = care_instructions
          /\ \A h, g \in Handlers :
                (h # g /\ calls'[h] # calls[h]) => calls'[g] = calls[g]]_vars

\* Both listeners have finished a call, on different files with different
\* answers, and their results differ.
Wit_C10 ==
  /\ Done("click") /\ Done("change")
  /\ calls["click"].img_file = "small.jpg"
  /\ calls["change"].img_file = "large.png"
  /\ IsSuccess(calls["click"].result) /\ IsSuccess(calls["change"].result)
  /\ calls["click"].result[1].label # calls["change"].result[1].label
  /\ calls["click"].predictArg # calls["change"].predictArg

\* The number of steps a call at position pc still takes after model.predict.
StepsLeft(pc) ==
  CASE pc = "classify" -> 2
    [] pc = "render" -> 1
    [] OTHER -> 0

\* The call of h has failed in load_img.
PreprocessingFailed(h) ==
  /\ calls[h].loadImgCalls > 0
  /\ load_img(calls[h].img_file, <<img_width, img_height>>).raised

\* C11: within one call load_img is invoked at most once and model.predict
\* at most once; a failure of either ends the call at once with the error
\* result of that failure; a finished call keeps its one result until it is
\* delivered; and once the Classifier has returned or raised, the call is
\* at most two steps from its end, its next step can always be taken, and
\* each step it takes brings it closer to the end.
Thm_C11 ==
  /\ [](\A h \in Handlers :
          /\ calls[h].loadImgCalls <= 1
          /\ calls[h].predictCalls <= 1
          /\ PreprocessingFailed(h) =>
                /\ Done(h)
                /\ calls[h].predictCalls = 0
                /\ calls[h].result
                     = ErrorResult(load_img(calls[h].img_file,
                                            <<img_width, img_height>>).exc)
          /\ (calls[h].predictCalls > 0 /\ calls[h].classifierOut.raised) =>
                /\ Done(h)
                /\ calls[h].result = ErrorResult(calls[h].classifierOut.exc))
  /\ [][\A h \in Handlers :
          /\ calls'[h].loadImgCalls <= calls[h].loadImgCalls + 1
          /\ calls'[h].predictCalls <= calls[h].predictCalls + 1
          /\ Done(h) =>
                \/ calls'[h] = calls[h]
                \/ calls'[h] = IdleCall]_vars
  /\ [](\A h \in Handlers :
          /\ calls[h].predictCalls > 0 =>
                calls[h].pc \in {"classify", "render", "done"}
          /\ calls[h].pc \in {"classify", "render"} =>
                ENABLED (Classify(h) \/ Render(h)))
  /\ [][\A h \in Handlers :
          (calls[h].pc \in {"classify", "render"} /\ calls'[h] # calls[h]) =>
             StepsLeft(calls'[h].pc) < StepsLeft(calls[h].pc)]_vars

\* One call failed in load_img, the other in model.predict.
Wit_C11 ==
  /\ Done("click") /\ PreprocessingFailed("click")
  /\ calls["click"].loadImgCalls = 1
  /\ Done("change") /\ calls["change"].predictCalls = 1
  /\ calls["change"].classifierOut.raised

\* The character a is the character b, or the upper-case letter of b.
SameLetter(a, b) ==
  a = b \/ \E k \in 1..26 : a = UpperCase[k] /\ b = LowerCase[k]

\* The name ends, whatever the case of its letters, with .jpg, .jpeg or .png.
ImageName(name) ==
  \E ext \in { << ".", "j", "p", "g" >>, << ".", "j", "p", "e", "g" >>,
               << ".", "p", "n", "g" >> } :
     /\ Len(name) >= Len(ext)
     /\ \A k \in 1..Len(ext) :
           SameLetter(name[Len(name) - Len(ext) + k], ext[k])

\* The files of the walk that are no longer on disk.
Removed == (1..Len(cleanup.files)) \ cleanup.on_disk

====
